---- MODULE Spec2Model ----
(***************************************************************************)
(* Clifford + phase "compute" simulator state                              *)
(* (src/src/simulators/clifford_plus_phase/compute.hpp).                   *)
(*                                                                         *)
(* Qubit, row and bit indices are 0-based as in the source; TLA+ sequences *)
(* are 1-based, so position q of a vector s is s[q + 1].                   *)
(***************************************************************************)
EXTENDS Integers, Sequences, FiniteSets, TLC

\* ------------------------------------------------------------------ bounds
\* Number of qubits the circuit declares (initialize_qreg's num_qubits).
CodeQubits == {0, 1}
NumCodeQubits == Cardinality(CodeQubits)
\* Longest operation list apply_ops is run on.
MaxOps == 2
\* Most T/Tdg gates applied in one run.
MaxMagic == 1
\* Bit width of uint_t in the model (64 in the build).
UintBits == 6
\* Rows of the tableaux handed to the Gray-code kernel have at most this
\* many non-identity positions.
MaxWeight == 1
\* Largest number of code qubits / magic qubits in the reordering runs.
MaxN == 3
MaxT == 2

\* ------------------------------------------------------------ basic helpers
Pow2(k) == 2 ^ k

Min(a, b) == IF a < b THEN a ELSE b

Range(s) == {s[i] : i \in DOMAIN s}

B2N(b) == IF b THEN 1 ELSE 0

\* Sequences of length k over S without repeated elements.
DistinctSeqs(S, k) == {s \in [1..k -> S] : \A i, j \in 1..k : i # j => s[i] # s[j]}

\* Bitwise exclusive or of two naturals below 2^UintBits.
RECURSIVE XorBits(_, _, _)
XorBits(a, b, k) ==
  IF k = 0 THEN 0
  ELSE ((a + b) % 2) + 2 * XorBits(a \div 2, b \div 2, k - 1)

Xor(a, b) == XorBits(a, b, UintBits)

\* (x >> j) & ONE
Bit(x, j) == (x \div Pow2(j)) % 2

\* C++ remainder (truncation toward zero).
CRem(a, m) == IF a >= 0 THEN a % m ELSE -((-a) % m)

\* ------------------------------------------------------------ Pauli algebra
\* A Pauli row: X and Z bit vectors of equal length.
PauliId(n) == [X |-> [i \in 1..n |-> FALSE], Z |-> [i \in 1..n |-> FALSE]]

\* Pauli::operator+= : bitwise symmetric difference of X and of Z.
PauliAdd(p, q) ==
  [X |-> [i \in 1..Len(p.X) |-> p.X[i] # q.X[i]],
   Z |-> [i \in 1..Len(p.Z) |-> p.Z[i] # q.Z[i]]]

\* Pauli::phase_exponent(pauli1, pauli2): the power of i picked up by the
\* product, accumulated qubit by qubit and reduced modulo 4.
RECURSIVE PhaseExpFrom(_, _, _, _)
PhaseExpFrom(p1, p2, q, e) ==
  IF q > Len(p1.X) THEN (IF e < 0 THEN e + 4 ELSE e)
  ELSE LET x1 == B2N(p1.X[q])
           z1 == B2N(p1.Z[q])
           x2 == B2N(p2.X[q])
           z2 == B2N(p2.Z[q])
           e1 == e + x2 * z1 * (1 + 2 * z2 + 2 * x1)
           e2 == e1 - x1 * z2 * (1 + 2 * z1 + 2 * x2)
       IN PhaseExpFrom(p1, p2, q + 1, CRem(e2, 4))

phase_exponent(p1, p2) == PhaseExpFrom(p1, p2, 1, 0)

\* ---------------------------------------------------- extended tableau (AGState)
\* Angles are counted in units of pi/4.
T_ANGLE == 1
\* The chop tolerance is far below one unit.
AG_CHOP_THRESHOLD == 0

Abs(x) == IF x < 0 THEN -x ELSE x

\* AGState::initialize(n): |0...0>, stabilised by Z on each qubit.
InitAG(n) ==
  [num_qubits |-> n,
   num_stabilizers |-> n,
   table |-> [s \in 1..n |-> [X |-> [i \in 1..n |-> FALSE],
                             Z |-> [i \in 1..n |-> i = s]]],
   phases |-> [s \in 1..n |-> 0],
   magic_phases |-> <<>>]

\* No stale bits: every index used is in range.
NoJunk == [x |-> {}, z |-> {}]

\* Rewrite row s of the tableau (table entry and sign).
MapRows(ag, F(_, _), G(_, _)) ==
  [ag EXCEPT !.table  = [s \in 1..ag.num_stabilizers |-> F(ag.table[s], s)],
             !.phases = [s \in 1..ag.num_stabilizers |-> G(ag.table[s], ag.phases[s])]]

applyX(ag, a) ==
  MapRows(ag, LAMBDA row, s : row,
              LAMBDA row, r : (r + B2N(row.Z[a + 1])) % 2)

applyZ(ag, a) ==
  MapRows(ag, LAMBDA row, s : row,
              LAMBDA row, r : (r + B2N(row.X[a + 1])) % 2)

applyY(ag, a) ==
  MapRows(ag, LAMBDA row, s : row,
              LAMBDA row, r : (r + B2N(row.X[a + 1]) + B2N(row.Z[a + 1])) % 2)

applyH(ag, a) ==
  MapRows(ag, LAMBDA row, s : [X |-> [row.X EXCEPT ![a + 1] = row.Z[a + 1]],
                               Z |-> [row.Z EXCEPT ![a + 1] = row.X[a + 1]]],
              LAMBDA row, r : (r + B2N(row.X[a + 1]) * B2N(row.Z[a + 1])) % 2)

applyS(ag, a) ==
  MapRows(ag, LAMBDA row, s : [row EXCEPT !.Z[a + 1] = (row.Z[a + 1] # row.X[a + 1])],
              LAMBDA row, r : (r + B2N(row.X[a + 1]) * B2N(row.Z[a + 1])) % 2)

applyCX(ag, a, b) ==
  MapRows(ag, LAMBDA row, s : [X |-> [row.X EXCEPT ![b + 1] = (row.X[b + 1] # row.X[a + 1])],
                               Z |-> [row.Z EXCEPT ![a + 1] = (row.Z[a + 1] # row.Z[b + 1])]],
              LAMBDA row, r : (r + B2N(row.X[a + 1]) * B2N(row.Z[b + 1])
                                   * B2N(row.X[b + 1] = row.Z[a + 1])) % 2)

applyCZ(ag, a, b) == applyH(applyCX(applyH(ag, b), a, b), b)

\* Bit p of vector v in row s: a position past the end of the vector reads
\* whatever the storage holds there (junk names the <<row, position>> pairs
\* whose stale bit is set).
ReadBit(v, p, s, stale) == IF p < Len(v) THEN v[p + 1] ELSE <<s, p>> \in stale

\* Write bit p of vector v: a write past the end does not land in the vector.
WriteBit(v, p, val) == IF p < Len(v) THEN [v EXCEPT ![p + 1] = val] ELSE v

SwapBits(v, a, b, s, stale) ==
  WriteBit(WriteBit(v, a, ReadBit(v, b, s, stale)), b, ReadBit(v, a, s, stale))

\* AGState::applySwap(a, b): exchange columns a and b in every row.
applySwap(ag, a, b, junk) ==
  MapRows(ag, LAMBDA row, s : [X |-> SwapBits(row.X, a, b, s, junk.x),
                               Z |-> SwapBits(row.Z, a, b, s, junk.z)],
              LAMBDA row, r : r)

\* AGState::gadgetized_phase_gate(a, angle): append a fresh magic qubit in
\* |0>, record its angle and entangle it with the target by a CX.
gadgetized_phase_gate(ag, a, angle) ==
  LET n  == ag.num_qubits
      k  == ag.num_stabilizers
      grown == [num_qubits |-> n + 1,
                num_stabilizers |-> k + 1,
                table |-> [s \in 1..(k + 1) |->
                             IF s <= k
                             THEN [X |-> Append(ag.table[s].X, FALSE),
                                   Z |-> Append(ag.table[s].Z, FALSE)]
                             ELSE [X |-> [i \in 1..(n + 1) |-> FALSE],
                                   Z |-> [i \in 1..(n + 1) |-> i = n + 1]]],
                phases |-> Append(ag.phases, 0),
                magic_phases |-> Append(ag.magic_phases, angle)]
  IN applyCX(grown, a, n)

\* ------------------------------------------------- Gray-code summation kernel
\* The mask itself in place of its Gray code: consecutive values then differ
\* in more than one bit.
BinaryToGray_plain(num) == num

\* This function converts an unsigned binary number to reflected binary Gray code.
BinaryToGray(num) == Xor(num, num \div 2)

\* full_mask: bit i set for every stabilizer row i (rows <= UintBits).
RECURSIVE FullMaskFrom(_, _)
FullMaskFrom(i, k) == IF i >= k THEN 0 ELSE Pow2(i) + FullMaskFrom(i + 1, k)

FullMask(state) == FullMaskFrom(0, state.num_stabilizers) % Pow2(UintBits)

\* Index of the lowest set bit of m among the row indices, 0 when none is set.
RECURSIVE LowestBitFrom(_, _, _)
LowestBitFrom(m, j, k) ==
  IF j >= k THEN 0
  ELSE IF Bit(m, j) = 1 THEN j
  ELSE LowestBitFrom(m, j + 1, k)

\* The X / Y / Z tally of a row; the scan stops at the first Z-only position.
RECURSIVE CountFrom(_, _, _)
CountFrom(row, j, c) ==
  IF j > Len(row.X) THEN c
  ELSE LET x == row.X[j]
           z == row.Z[j]
       IN IF (~x) /\ z THEN [c EXCEPT !.z = c.z + 1]
          ELSE CountFrom(row, j + 1,
                         [x |-> c.x + B2N(x /\ ~z), y |-> c.y + B2N(x /\ z), z |-> c.z])

PauliCounts(row) == CountFrom(row, 1, [x |-> 0, y |-> 0, z |-> 0])

\* Real numbers of the form (r + s * sqrt(2)) / 2^h, h fixed by the qubit count.
ScaleBits(nq) == (nq + 1) \div 2

RealOne(nq) == [r |-> Pow2(ScaleBits(nq)), s |-> 0]

\* powl(1./2., k/2.) in units of 2^-h.
HalfPow(k, nq) ==
  IF k % 2 = 0 THEN [r |-> Pow2(ScaleBits(nq) - k \div 2), s |-> 0]
  ELSE [r |-> 0, s |-> Pow2(ScaleBits(nq) - (k + 1) \div 2)]

\* The signed contribution of an accumulated row with phase counter `phase`.
RowTerm(row, phase) ==
  LET c  == PauliCounts(row)
      m  == HalfPow(c.x + c.y, Len(row.X))
      sg == IF (phase + c.y) % 2 = 0 THEN 1 ELSE -1
  IN IF c.z = 0 THEN [r |-> sg * m.r, s |-> sg * m.s] ELSE [r |-> 0, s |-> 0]

\* Loop variables before the first iteration.
KernelStart(state) ==
  [mask    |-> 1,
   row     |-> PauliId(state.num_qubits),
   phase   |-> 0,
   acc     |-> RealOne(state.num_qubits),
   subset  |-> 0,
   visited |-> <<>>,
   iters   |-> 0]

\* One pass of the body of the mask loop, and the mask++ that follows it.
\* subset and visited record which rows are currently multiplied into row.
GrayIter(state, lv) ==
  LET prev   == (lv.mask + Pow2(UintBits) - 1) % Pow2(UintBits)
      flip   == Xor(BinaryToGray(lv.mask), BinaryToGray(prev))
      bit    == LowestBitFrom(flip, 0, state.num_stabilizers)
      gen    == state.table[bit + 1]
      phase2 == (lv.phase + phase_exponent(lv.row, gen)) % 256
      row2   == PauliAdd(lv.row, gen)
      term   == RowTerm(row2, phase2)
      sub2   == Xor(lv.subset, Pow2(bit))
  IN [mask    |-> (lv.mask + 1) % Pow2(UintBits),
      row     |-> row2,
      phase   |-> phase2,
      acc     |-> [r |-> lv.acc.r + term.r, s |-> lv.acc.s + term.s],
      subset  |-> sub2,
      visited |-> Append(lv.visited, sub2),
      iters   |-> lv.iters + 1]

\* The value returned once the loop has been left.
KernelResult(state, lv) ==
  IF FullMask(state) = 0 THEN RealOne(state.num_qubits) ELSE lv.acc

RECURSIVE RunKernel(_, _)
RunKernel(state, lv) ==
  IF lv.mask <= FullMask(state) THEN RunKernel(state, GrayIter(state, lv)) ELSE lv

compute_algorithm_all_phases_T(state) ==
  KernelResult(state, RunKernel(state, KernelStart(state)))

\* -------------------------------------------------------- compute_probability
\* std::sort(measured_qubits_sorted.begin(), measured_qubits_sorted.end())
RECURSIVE std_sort(_)
std_sort(s) ==
  IF Len(s) = 0 THEN <<>>
  ELSE LET i == CHOOSE k \in 1..Len(s) : \A j \in 1..Len(s) : s[k] <= s[j]
       IN <<s[i]>> \o std_sort(SubSeq(s, 1, i - 1) \o SubSeq(s, i + 1, Len(s)))

\* The inner search loop: the first j with measured_qubits[j] == w, else 0.
RECURSIVE FindIndexFrom(_, _, _)
FindIndexFrom(measured, w, j) ==
  IF j >= Len(measured) THEN 0
  ELSE IF measured[j + 1] = w THEN j
  ELSE FindIndexFrom(measured, w, j + 1)

\* "first reorder things so the first w qubits are measured"
RECURSIVE ReorderFrom(_, _, _, _)
ReorderFrom(ag, measured, sorted, i) ==
  IF i >= Len(measured) THEN ag
  ELSE LET w   == sorted[i + 1]
           idx == FindIndexFrom(measured, w, 0)
       IN ReorderFrom(IF measured[i + 1] # i THEN applySwap(ag, w, idx, NoJunk) ELSE ag,
                      measured, sorted, i + 1)

ReorderMeasured(ag, measured) == ReorderFrom(ag, measured, std_sort(measured), 0)

\* "apply X gates to measured qubits where we're looking for outcome 1"
RECURSIVE NormalizeFrom(_, _, _)
NormalizeFrom(ag, outcomes, i) ==
  IF i >= Len(outcomes) THEN ag
  ELSE NormalizeFrom(IF outcomes[i + 1] = 1 THEN applyX(ag, i) ELSE ag, outcomes, i + 1)

NormalizeOutcomes(ag, outcomes) == NormalizeFrom(ag, outcomes, 0)

\* The first k rows of the tableau.
KeepRows(ag, k) ==
  [ag EXCEPT !.num_stabilizers = k,
             !.table = SubSeq(ag.table, 1, k),
             !.phases = SubSeq(ag.phases, 1, k)]

\* AGState::apply_constraints(w, t): reports whether the outcome is
\* possible and, if it is, the integer v, leaving a reduced set of rows.
\* What it reports is the solver's to decide: sol carries its answer.
apply_constraints(ag, w, t, sol) ==
  [ok |-> sol.ok, v |-> sol.v, ag |-> IF sol.ok THEN KeepRows(ag, sol.rows1) ELSE ag]

\* for(q < t) applySwap(q, q+t)
RECURSIVE SwapMagicFrom(_, _, _, _)
SwapMagicFrom(ag, t, q, junk) ==
  IF q >= t THEN ag
  ELSE SwapMagicFrom(applySwap(ag, q, q + t, junk), t, q + 1, junk)

\* X.resize(t); Z.resize(t) on every row, then num_qubits = t.
Truncate(ag, t) ==
  [ag EXCEPT !.num_qubits = t,
             !.table = [s \in 1..ag.num_stabilizers |->
                          [X |-> SubSeq(ag.table[s].X, 1, t),
                           Z |-> SubSeq(ag.table[s].Z, 1, t)]]]

\* "at this point we can delete all the non-magic qubits"
IsolateMagic(ag, t, junk) == Truncate(SwapMagicFrom(ag, t, 0, junk), t)

\* The positions past the end of a row that the isolation swaps touch.
StalePositions(nq, t) == {q + t : q \in {x \in 0..(t - 1) : x + t >= nq}}

\* AGState::apply_T_constraints(): a further reduction of the rows.
apply_T_constraints(ag, sol) == KeepRows(ag, Min(sol.rows2, ag.num_stabilizers))

\* AGState::delete_identity_magic_qubits(): drop every magic qubit on which
\* all rows act as the identity, together with its phase.
delete_identity_magic_qubits(ag) ==
  LET live == {q \in 1..ag.num_qubits :
                 \E s \in 1..ag.num_stabilizers : ag.table[s].X[q] \/ ag.table[s].Z[q]}
      Sel(v) == SelectSeq([q \in 1..Len(v) |-> <<q, v[q]>>], LAMBDA e : e[1] \in live)
      Pick(v) == [i \in 1..Len(Sel(v)) |-> Sel(v)[i][2]]
  IN [ag EXCEPT !.num_qubits = Cardinality(live),
                !.table = [s \in 1..ag.num_stabilizers |->
                             [X |-> Pick(ag.table[s].X), Z |-> Pick(ag.table[s].Z)]],
                !.magic_phases = Pick(ag.magic_phases)]

\* The fast-path test over the remaining magic phases.
AllPhasesAreT(ag) ==
  \A i \in 1..ag.num_qubits : ~(Abs(ag.magic_phases[i] - T_ANGLE) > AG_CHOP_THRESHOLD)

\* A returned double: (r + s * sqrt(2)) * 2^e, or an infinite power of two
\* times that when inf is set.
ZeroValue == [r |-> 0, s |-> 0, e |-> 0, inf |-> FALSE]

\* A query that worked on this->qreg_ itself would leave its own tableau behind.
QregAfterQuery_alias(self, copied_ag) == copied_ag

\* "copied_ag = this->qreg_": the query works on a copy, so what it does to
\* copied_ag never reaches this->qreg_.
QregAfterQuery(self, copied_ag) == self

HeadSteps == <<"copy", "reorder", "normalize", "apply_constraints">>

TailSteps == <<"swap_magic", "truncate", "apply_T_constraints",
               "delete_identity_magic_qubits", "phase_check">>

\* compute_probability from the copy to the call of the constraint solver.
ProbHead(qreg, measured, outcomes, sol) ==
  LET copied == NormalizeOutcomes(ReorderMeasured(qreg, measured), outcomes)
      w == Len(measured)
      t == Len(copied.magic_phases)
  IN [w |-> w, t |-> t, c |-> apply_constraints(copied, w, t, sol), before |-> copied]

\* compute_probability after the solver has reported success.
ProbTail(qreg, h, sol) ==
  LET w == h.w
      v == h.c.v
      isolated == IsolateMagic(h.c.ag, h.t, sol.junk)
      cleaned == delete_identity_magic_qubits(apply_T_constraints(isolated, sol))
      allT == AllPhasesAreT(cleaned)
      base == [ok |-> h.c.ok, w |-> w, t |-> h.t, v |-> v,
               remaining |-> SubSeq(cleaned.magic_phases, 1, cleaned.num_qubits),
               all_phases_are_T |-> allT,
               self |-> QregAfterQuery(qreg, cleaned)]
  IN IF cleaned.num_qubits = 0
     THEN base @@ [steps |-> HeadSteps \o TailSteps \o <<"direct">>,
                   route |-> "direct",
                   p |-> [r |-> 1, s |-> 0, e |-> v - w, inf |-> FALSE]]
     ELSE LET acc == compute_algorithm_all_phases_T(cleaned)
          IN base @@ [steps |-> HeadSteps \o TailSteps \o <<"all_phases_T">>,
                      route |-> "all_phases_T",
                      p |-> [r |-> acc.r, s |-> acc.s,
                             e |-> v - w - ScaleBits(cleaned.num_qubits),
                             inf |-> v < w]]

\* compute_probability without the return on "!v_pair.first".
compute_probability_no_early_return(qreg, measured, outcomes, sol) ==
  ProbTail(qreg, ProbHead(qreg, measured, outcomes, sol), sol)

compute_probability(qreg, measured, outcomes, sol) ==
  LET h == ProbHead(qreg, measured, outcomes, sol)
  IN IF ~h.c.ok
     THEN [ok |-> FALSE, w |-> h.w, t |-> h.t, v |-> 0,
           remaining |-> h.before.magic_phases,
           all_phases_are_T |-> FALSE,
           self |-> QregAfterQuery(qreg, h.before),
           steps |-> HeadSteps, route |-> "zero", p |-> ZeroValue]
     ELSE ProbTail(qreg, h, sol)

\* ------------------------------------------------------------ gate dispatch
\* const stringmap_t<Gates> State::gateset_
gateset_ ==
  [name \in {"delay", "id", "x", "y", "z", "s", "sdg", "h", "t", "tdg",
             "CX", "cx", "CZ", "cz", "swap"} |->
     CASE name \in {"delay", "id"} -> "id"
       [] name \in {"CX", "cx"}    -> "cx"
       [] name \in {"CZ", "cz"}    -> "cz"
       [] OTHER                    -> name]

NoError == [kind |-> "none", name |-> ""]

\* An apply_gate that touches the tableau before it looks the name up.
apply_gate_mutate_first(ag, op) ==
  [qreg |-> applyX(ag, op.qubits[1]),
   error |-> IF op.name \in DOMAIN gateset_ THEN NoError
             ELSE [kind |-> "invalid_operation", name |-> op.name]]

\* State::apply_gate(op): the look-up, then the switch over the gate kind.
apply_gate(ag, op) ==
  IF op.name \notin DOMAIN gateset_
  THEN [qreg |-> ag, error |-> [kind |-> "invalid_operation", name |-> op.name]]
  ELSE LET g  == gateset_[op.name]
           q0 == op.qubits[1]
       IN [error |-> NoError,
           qreg |->
             CASE g = "id"   -> ag
               [] g = "x"    -> applyX(ag, q0)
               [] g = "y"    -> applyY(ag, q0)
               [] g = "z"    -> applyZ(ag, q0)
               [] g = "s"    -> applyS(ag, q0)
               [] g = "sdg"  -> applyS(applyZ(ag, q0), q0)
               [] g = "h"    -> applyH(ag, q0)
               [] g = "t"    -> gadgetized_phase_gate(ag, q0, T_ANGLE)
               [] g = "tdg"  -> gadgetized_phase_gate(ag, q0, -T_ANGLE)
               [] g = "cx"   -> applyCX(ag, q0, op.qubits[2])
               [] g = "cz"   -> applyCZ(ag, q0, op.qubits[2])
               [] g = "swap" -> applySwap(ag, q0, op.qubits[2], NoJunk)
               [] OTHER      -> ag]

\* A switch whose default case is the gate case.
Dispatch_default_gate(op) ==
  CASE op.type = "save_specific_probs" -> "apply_save_specific_probs"
    [] OTHER                           -> "apply_gate"

\* The switch of apply_ops over op.type.
Dispatch(op) ==
  CASE op.type = "gate"                -> "apply_gate"
    [] op.type = "save_specific_probs" -> "apply_save_specific_probs"
    [] OTHER                           -> "throw"

\* All Pauli rows on nq qubits.
PauliRows(nq) ==
  {[X |-> x, Z |-> z] : x \in [1..nq -> BOOLEAN], z \in [1..nq -> BOOLEAN]}

Weight(row) == Cardinality({i \in 1..Len(row.X) : row.X[i] \/ row.Z[i]})

\* A tableau of t rows drawn from Rows, over nq qubits, as the kernel reads it.
KernelInput(t, nq, tab) ==
  [num_qubits |-> nq, num_stabilizers |-> t, table |-> tab,
   phases |-> [s \in 1..t |-> 0], magic_phases |-> [i \in 1..nq |-> T_ANGLE]]

\* ----------------------------------------------------------------- state
VARIABLES
  qreg,     \* this->qreg_, the tableau the simulation owns
  result,   \* the values recorded in the ExperimentResult, in order
  last,     \* type and label of the operation handled last, and whether
            \* its name is in the gate table
  failed,   \* the operation whose handling threw, NoOp while none has
  error,    \* the exception that ended apply_ops, NoError while it runs
  nops,     \* how many operations of the list have been handled
  query,    \* the last compute_probability call: what it did and returned
  gateOnly, \* the tableau of a run of the gate operations alone
  kstate,   \* the tableau handed to compute_algorithm_all_phases_T
  kl,       \* its loop variables (mask, row, phase, acc, ...)
  kpc,      \* "loop" while the mask loop runs, "done" once it has returned
  kres,     \* the value returned
  pin,      \* a query's arguments, listed twice: as given and relabelled
  pagA,     \* the copied tableau of the query as given
  pagB,     \* the copied tableau of the relabelled query
  pstage    \* how far the two queries have got

mvars == <<qreg, result, last, failed, error, nops, query, gateOnly>>
kvars == <<kstate, kl, kpc, kres>>
pvars == <<pin, pagA, pagB, pstage>>
vars == <<qreg, result, last, failed, error, nops, query, gateOnly,
          kstate, kl, kpc, kres, pin, pagA, pagB, pstage>>

\* ------------------------------------------------- apply_ops, one operation a step
OneQubitNames == {"delay", "id", "x", "y", "z", "s", "sdg", "h", "t", "tdg"}
TwoQubitNames == {"CX", "cx", "CZ", "cz", "swap"}
\* Names the gate table does not hold ("sx" is a Gates enumerator without an entry).
UnknownNames == {"sx", "ccx"}
Labels == {"p", "q"}

MkOp(type, name, qubits, ints, strs) ==
  [type |-> type, name |-> name, qubits |-> qubits,
   int_params |-> ints, string_params |-> strs]

NoOp == MkOp("none", "", <<>>, <<>>, <<>>)

\* What is remembered of the operation handled last.
Seen(o) ==
  [type |-> o.type,
   label |-> IF Len(o.string_params) > 0 THEN o.string_params[1] ELSE "",
   in_table |-> o.name \in DOMAIN gateset_]

GateOps(ag) ==
  {MkOp("gate", nm, <<a>>, <<>>, <<>>) :
     nm \in {x \in OneQubitNames \cup UnknownNames :
               x \in {"t", "tdg"} => Len(ag.magic_phases) < MaxMagic},
     a \in CodeQubits}
  \cup {MkOp("gate", nm, qs, <<>>, <<>>) :
          nm \in TwoQubitNames, qs \in DistinctSeqs(CodeQubits, 2)}

\* The qubits and int_params of a probability-save operation: distinct
\* code qubits in any order, one requested outcome for each.
SaveArgs ==
  UNION {{[qubits |-> m, int_params |-> o] :
            m \in DistinctSeqs(CodeQubits, k), o \in [1..k -> {0, 1}]} :
         k \in 1..NumCodeQubits}

OtherOps == {MkOp("measure", "measure", <<0>>, <<>>, <<>>)}

\* The operations apply_ops hands on by their type alone.
PlainOps(ag) == GateOps(ag) \cup OtherOps

\* What the constraint solver and the reductions may answer for a query on
\* a tableau of ns rows and nq qubits, t of them magic, and what a read past
\* the end of a row may return. The row reductions commute with the column
\* steps between them, so only the rows left at the end (rows2) show in the
\* outcome: one rows1 is listed for each rows2.
Solutions(ns, nq, w, t) ==
  {[ok |-> FALSE, v |-> 0, rows1 |-> ns, rows2 |-> ns, junk |-> NoJunk]}
  \cup UNION {{[ok |-> TRUE, v |-> v, rows1 |-> r2 + (ns - r2) \div 2, rows2 |-> r2,
                junk |-> [x |-> jx, z |-> jz]] :
                 v \in 0..w,
                 jx \in SUBSET ((1..ns) \X StalePositions(nq, t)),
                 jz \in SUBSET ((1..ns) \X StalePositions(nq, t))} :
              r2 \in 0..ns}

NoQuery ==
  [ok |-> FALSE, t |-> 0, remaining |-> <<>>,
   all_phases_are_T |-> FALSE, steps |-> <<>>, route |-> "none"]

KernelIdle ==
  /\ kstate = KernelInput(0, 0, <<>>)
  /\ kl = KernelStart(kstate)
  /\ kpc = "idle"
  /\ kres = RealOne(0)

ProbIdle ==
  /\ pin = [n |-> 0, t |-> 0, measured |-> <<>>, outcomes |-> <<>>,
            measuredB |-> <<>>, outcomesB |-> <<>>]
  /\ pagA = InitAG(0)
  /\ pagB = InitAG(0)
  /\ pstage = "idle"

Init ==
  /\ qreg = InitAG(NumCodeQubits)
  /\ gateOnly = InitAG(NumCodeQubits)
  /\ result = <<>>
  /\ last = Seen(NoOp)
  /\ failed = NoOp
  /\ error = NoError
  /\ nops = 0
  /\ query = NoQuery
  /\ KernelIdle
  /\ ProbIdle

\* The loop of apply_ops runs until the list ends or an exception leaves it.
Running == error = NoError /\ nops < MaxOps

\* case Operations::OpType::gate: this->apply_gate(op)
GateStep ==
  \E o \in PlainOps(qreg) :
    /\ Running
    /\ Dispatch(o) = "apply_gate"
    /\ LET g == apply_gate(qreg, o)
       IN /\ qreg' = g.qreg
          /\ error' = g.error
          /\ gateOnly' = apply_gate(gateOnly, o).qreg
          /\ failed' = IF g.error = NoError THEN NoOp ELSE o
    /\ last' = Seen(o)
    /\ nops' = nops + 1
    /\ UNCHANGED <<result, query, kvars, pvars>>

\* case Operations::OpType::save_specific_probs:
\*   this->apply_save_specific_probs(op, result)
SaveStep ==
  \E m \in SaveArgs :
    \E sol \in Solutions(qreg.num_stabilizers, qreg.num_qubits,
                         Len(m.qubits), Len(qreg.magic_phases)) :
      LET q == compute_probability(qreg, m.qubits, m.int_params, sol)
      IN \E l \in Labels :
           LET o == MkOp("save_specific_probs", "save_specific_probs",
                         m.qubits, m.int_params, <<l>>)
           IN /\ Running
              /\ Dispatch(o) = "apply_save_specific_probs"
              /\ qreg' = q.self
              /\ query' = [f \in DOMAIN NoQuery |-> q[f]]
              /\ result' = Append(result, [label |-> o.string_params[1],
                                           value |-> <<q.p>>])
              /\ last' = Seen(o)
              /\ nops' = nops + 1
              /\ UNCHANGED <<error, failed, gateOnly, kvars, pvars>>

\* default: throw std::invalid_argument("... invalid instruction ...")
OtherStep ==
  \E o \in PlainOps(qreg) :
    /\ Running
    /\ Dispatch(o) = "throw"
    /\ error' = [kind |-> "invalid_instruction", name |-> o.name]
    /\ last' = Seen(o)
    /\ failed' = o
    /\ nops' = nops + 1
    /\ UNCHANGED <<qreg, result, query, gateOnly, kvars, pvars>>

Next == GateStep \/ SaveStep \/ OtherStep

Spec == Init /\ [][Next]_vars

\* ------------------------------------------------ kernel, one iteration a step
MainIdle ==
  /\ qreg = InitAG(0)
  /\ gateOnly = InitAG(0)
  /\ result = <<>>
  /\ last = Seen(NoOp)
  /\ failed = NoOp
  /\ error = NoError
  /\ nops = 0
  /\ query = NoQuery

\* The claim's cases: t = 1, 2, 3 generator rows over t magic qubits.
GrayRange == {1, 2, 3}

\* Rows of weight at most MaxWeight on t qubits.
GrayRows(t) == {r \in PauliRows(t) : Weight(r) <= MaxWeight}

InitGray ==
  /\ \E t \in GrayRange :
       \E tab \in [1..t -> GrayRows(t)] : kstate = KernelInput(t, t, tab)
  /\ kl = KernelStart(kstate)
  /\ kpc = "loop"
  /\ kres = RealOne(kstate.num_qubits)
  /\ MainIdle
  /\ ProbIdle

\* Any number of rows the mask integer has bits for, over one qubit; each
\* row is X or Z.
LoopRows == {r \in PauliRows(1) : r.X[1] # r.Z[1]}

InitLoop ==
  /\ \E t \in 0..UintBits :
       \E tab \in [1..t -> LoopRows] : kstate = KernelInput(t, 1, tab)
  /\ kl = KernelStart(kstate)
  /\ kpc = "loop"
  /\ kres = RealOne(kstate.num_qubits)
  /\ MainIdle
  /\ ProbIdle

\* for(uint_t mask = 1u; mask <= full_mask; mask++){ ... }
\* (the model stops following a run after 2^UintBits + 1 iterations)
KernelStep ==
  /\ kpc = "loop"
  /\ kl.mask <= FullMask(kstate)
  /\ kl.iters <= Pow2(UintBits)
  /\ kl' = GrayIter(kstate, kl)
  /\ UNCHANGED <<kstate, kpc, kres, mvars, pvars>>

KernelExit ==
  /\ kpc = "loop"
  /\ ~(kl.mask <= FullMask(kstate))
  /\ kpc' = "done"
  /\ kres' = KernelResult(kstate, kl)
  /\ UNCHANGED <<kstate, kl, mvars, pvars>>

KernelNext == KernelStep \/ KernelExit

SpecGray == InitGray /\ [][KernelNext]_vars

SpecLoop == InitLoop /\ [][KernelNext]_vars

\* ------------------------------------- the reordering steps of a query, alone
\* The tableau a circuit of n code qubits holds after t T gates on qubit 0:
\* the magic qubits are the trailing t positions.
ProbeTableau(n, t) ==
  LET RECURSIVE Build(_, _)
      Build(ag, k) ==
        IF k = 0 THEN ag
        ELSE Build(apply_gate(ag, MkOp("gate", "t", <<0>>, <<>>, <<>>)).qreg, k - 1)
  IN Build(InitAG(n), t)

\* Permutations of 1..k.
Perms(k) == {f \in [1..k -> 1..k] : \A i, j \in 1..k : i # j => f[i] # f[j]}

InitProb ==
  /\ \E n \in 1..MaxN, t \in 0..MaxT :
       \E k \in 1..n :
         \E m \in DistinctSeqs(0..(n - 1), k), o \in [1..k -> {0, 1}], f \in Perms(k) :
           pin = [n |-> n, t |-> t, measured |-> m, outcomes |-> o,
                  measuredB |-> [i \in 1..k |-> m[f[i]]],
                  outcomesB |-> [i \in 1..k |-> o[f[i]]]]
  /\ pagA = ProbeTableau(pin.n, pin.t)
  /\ pagB = ProbeTableau(pin.n, pin.t)
  /\ pstage = "copied"
  /\ MainIdle
  /\ KernelIdle

\* The swap loop over the measured qubits, on both copies.
ReorderStep ==
  /\ pstage = "copied"
  /\ pagA' = ReorderMeasured(pagA, pin.measured)
  /\ pagB' = ReorderMeasured(pagB, pin.measuredB)
  /\ pstage' = "reordered"
  /\ UNCHANGED <<pin, mvars, kvars>>

\* The X loop over the outcomes, on both copies.
NormalizeStep ==
  /\ pstage = "reordered"
  /\ pagA' = NormalizeOutcomes(pagA, pin.outcomes)
  /\ pagB' = NormalizeOutcomes(pagB, pin.outcomesB)
  /\ pstage' = "normalized"
  /\ UNCHANGED <<pin, mvars, kvars>>

\* The magic-qubit swap loop and the truncation, on both copies (the solver
\* between the X loop and this step rewrites rows, not columns).
IsolateStep ==
  /\ pstage = "normalized"
  /\ \E jx \in SUBSET ((1..pagA.num_stabilizers) \X StalePositions(pagA.num_qubits, pin.t)),
        jz \in SUBSET ((1..pagA.num_stabilizers) \X StalePositions(pagA.num_qubits, pin.t)) :
       /\ pagA' = IsolateMagic(pagA, pin.t, [x |-> jx, z |-> jz])
       /\ pagB' = IsolateMagic(pagB, pin.t, [x |-> jx, z |-> jz])
  /\ pstage' = "isolated"
  /\ UNCHANGED <<pin, mvars, kvars>>

ProbNext == ReorderStep \/ NormalizeStep \/ IsolateStep

SpecProb == InitProb /\ [][ProbNext]_vars

\* Column p of a tableau: the X and Z bits of every row at position p.
Column(ag, p) ==
  [s \in 1..ag.num_stabilizers |-> <<ag.table[s].X[p + 1], ag.table[s].Z[p + 1]>>]

\* The original qubit whose column sits at position p of a copy, -1 when the
\* column there is none of the original ones.
QubitAt(ag, p) ==
  LET ref == ProbeTableau(pin.n, pin.t)
      hit == {j \in 0..(ref.num_qubits - 1) : Column(ref, j) = Column(ag, p)}
  IN IF hit = {} THEN -1 ELSE CHOOSE j \in hit : TRUE

\* The positions of a copy an X has been applied to, read off the row signs.
XPositions(ag) ==
  CHOOSE P \in SUBSET (0..(ag.num_qubits - 1)) :
    \A s \in 1..ag.num_stabilizers :
      ag.phases[s] = Cardinality({p \in P : ag.table[s].Z[p + 1]}) % 2

\* What the solver, which projects positions 0..w-1 onto outcome 0, is asked
\* for in terms of the original qubits: pairs <<qubit, outcome>>.
Constrained(ag, w) ==
  {<<QubitAt(ag, p), IF p \in XPositions(ag) THEN 1 ELSE 0>> : p \in 0..(w - 1)}

\* ------------------------------------------------------- properties, apply_ops
\* C2: after any sequence of gate and probability-save operations the tableau
\* the simulation owns equals the tableau of the gate operations alone, also
\* when a query returned early with 0.
C2_QueriesLeaveStateAlone == qreg = gateOnly

\* A T gate followed by a query that went all the way through isolation.
C2_Witness ==
  /\ Len(result) >= 1
  /\ query.ok
  /\ query.t >= 1
  /\ qreg # InitAG(NumCodeQubits)

\* C3: a gate operation whose name is not in the gate table ends with an
\* invalid-operation error carrying that name and leaves the tableau as it
\* was; a gate operation whose name is in the table raises no error.
C3_UnknownGateRejectedUntouched ==
  [][last'.type = "gate" =>
       /\ ~last'.in_table =>
            /\ error'.kind = "invalid_operation"
            /\ error'.name = failed'.name
            /\ failed'.name \in UnknownNames
            /\ qreg' = qreg
       /\ last'.in_table => error' = NoError /\ failed' = NoOp]_vars

\* An unknown gate rejected after a gate that changed the tableau.
C3_Witness ==
  /\ error.kind = "invalid_operation"
  /\ error.name = "sx"
  /\ nops = 2
  /\ qreg # InitAG(NumCodeQubits)

C5_SolverFailureReturnsZero ==
  (last.type = "save_specific_probs" /\ ~query.ok) =>
     /\ query.steps = HeadSteps
     /\ query.route = "zero"
     /\ result[Len(result)].value = <<ZeroValue>>
     /\ error = NoError

\* A failed query on a tableau with a magic qubit.
C5_Witness ==
  /\ last.type = "save_specific_probs"
  /\ ~query.ok
  /\ query.t >= 1
  /\ Len(query.remaining) >= 1

\* C6: a successful query with magic qubits left takes the all-T rule exactly
\* when every remaining phase is within the chop tolerance of the T angle.
C6_FastPathPredicateDecidesRoute ==
  (query.ok /\ Len(query.remaining) >= 1) =>
     (query.route = "all_phases_T" <=> query.all_phases_are_T)

\* ---------------------------------------------- properties, reordering steps
\* C1: a query and the same query with measured qubits and outcomes permuted
\* alike constrain the same original qubits to the same outcomes.
C1_RelabelingInvariant ==
  pstage = "normalized" =>
    Constrained(pagA, Len(pin.measured)) = Constrained(pagB, Len(pin.measuredB))

\* C8: after the swap loop the measured qubits occupy positions 0..w-1, each
\* at the position it also has under any other listing of the same query.
C8_MeasuredQubitsLead ==
  pstage = "reordered" =>
    /\ {QubitAt(pagA, p) : p \in 0..(Len(pin.measured) - 1)} = Range(pin.measured)
    /\ \A p \in 0..(Len(pin.measured) - 1) : QubitAt(pagA, p) = QubitAt(pagB, p)

\* C9: after the isolation step positions 0..t-1 hold exactly the t magic
\* qubits, and no swap reached past the end of a row.
C9_MagicQubitsRetained ==
  pstage = "isolated" =>
    /\ StalePositions(pin.n + pin.t, pin.t) = {}
    /\ {QubitAt(pagA, p) : p \in 0..(pin.t - 1)} = (pin.n)..(pin.n + pin.t - 1)

\* ------------------------------------------------------- properties, kernel
\* Brute force: the product of the rows of a subset (a bit mask over the row
\* indices), multiplied in ascending row order from the identity.
RECURSIVE SubsetProductFrom(_, _, _, _)
SubsetProductFrom(state, m, j, pr) ==
  IF j >= state.num_stabilizers THEN pr
  ELSE IF Bit(m, j) = 1
       THEN SubsetProductFrom(state, m, j + 1,
              [row   |-> PauliAdd(pr.row, state.table[j + 1]),
               phase |-> pr.phase + phase_exponent(pr.row, state.table[j + 1])])
       ELSE SubsetProductFrom(state, m, j + 1, pr)

SubsetProduct(state, m) ==
  SubsetProductFrom(state, m, 0, [row |-> PauliId(state.num_qubits), phase |-> 0])

RECURSIVE BruteSumFrom(_, _)
BruteSumFrom(state, m) ==
  IF m = 0 THEN RealOne(state.num_qubits)
  ELSE LET pr   == SubsetProduct(state, m)
           term == RowTerm(pr.row, pr.phase)
           rest == BruteSumFrom(state, m - 1)
       IN [r |-> rest.r + term.r, s |-> rest.s + term.s]

BruteSum(state) == BruteSumFrom(state, Pow2(state.num_stabilizers) - 1)

\* C7: for t = 1, 2, 3 rows over t qubits, after the k-th iteration the
\* accumulated row is the from-scratch product of the rows of the subset
\* BinaryToGray(k) and its sign parity is that product's; on return every
\* non-empty subset has been visited exactly once and the accumulated sum
\* equals the brute-force sum over all non-empty subsets.
C7_GraySumEqualsBruteForce ==
  /\ kl.iters >= 1 =>
       /\ kl.subset = BinaryToGray(kl.iters)
       /\ kl.row = SubsetProduct(kstate, kl.subset).row
       /\ RowTerm(kl.row, kl.phase)
            = RowTerm(kl.row, SubsetProduct(kstate, kl.subset).phase)
  /\ kpc = "done" =>
       /\ Len(kl.visited) = Pow2(kstate.num_stabilizers) - 1
       /\ Range(kl.visited) = 1..(Pow2(kstate.num_stabilizers) - 1)
       /\ kres = BruteSum(kstate)

\* A run over three rows that has returned a sum with a subtracted odd-weight
\* term, two of its rows anticommuting.
C7_Witness ==
  /\ kpc = "done"
  /\ kstate.num_stabilizers = 3
  /\ kres.s < 0
  /\ phase_exponent(kstate.table[1], kstate.table[2]) % 2 = 1

\* C10: for every row count t from 0 up to the bit width of the mask, the
\* loop runs exactly 2^t - 1 iterations and then returns (no iteration and
\* the value 1 when t = 0).
C10_LoopRunsTwoPowTMinusOne ==
  /\ kl.iters <= Pow2(kstate.num_stabilizers) - 1
  /\ kpc = "done" =>
       /\ kl.iters = Pow2(kstate.num_stabilizers) - 1
       /\ kstate.num_stabilizers = 0 => kres = RealOne(kstate.num_qubits)

====
